---- MODULE Spec2Model ----
(***************************************************************************)
(* Model of ExcaClean (src/excaclean.py) and of the ClaudeSync notes       *)
(* processor (src/src/claudesync/notes_processor.py).                      *)
(*                                                                         *)
(* A text is a sequence of one-character strings.  A file's content is the *)
(* text that f.read() returns for it, or Unreadable when open()/read()     *)
(* raises (I/O error, permission error, invalid UTF-8).                    *)
(***************************************************************************)
EXTENDS Integers, Sequences, FiniteSets, TLC

VARIABLES
    \* ---- filter_excalidraw_data applied to one text (SpecFilter) ----
    fx,                 \* the text given to the first call
    fy,                 \* the text returned by the latest call
    fchanged,           \* filtered_text != text, for the latest call
    fpass,              \* number of calls made so far
    \* ---- excaclean.py: main / process_directory / concatenate_files ----
    tree,               \* source tree in os.walk order: dirs with their files
    mode,               \* "mirror" (duplicate, noxk) or "concat"
    pc,                 \* position of the run
    di,                 \* index in tree of the directory being walked
    fi,                 \* index of the next file of that directory
    dest,               \* destination tree: relative path -> text or Absent
    dest0,              \* the destination tree as it was before the run
    destDirs,           \* directories created under the destination
    processed_files,
    excalidraw_found,
    result,             \* concatenate_files: the list of appended entries
    output,             \* concatenate_files: the returned text
    total_files,        \* main: total given to progress.add_task
    ticks,              \* number of progress.update(advance=1) calls
    last,               \* what the latest loop iteration did with its file
    \* ---- notes_processor.process_note_file on one path (SpecNote) ----
    nfile,              \* content of the path, or Missing
    norig,              \* content of the path before the first call
    nret,               \* return value of the latest call
    nwrote,             \* whether the latest call opened the file for writing
    ncalls              \* number of calls made so far

fvars == <<fx, fy, fchanged, fpass>>
wvars == <<tree, mode, pc, di, fi, dest, dest0, destDirs, processed_files,
           excalidraw_found, result, output, total_files, ticks, last>>
nvars == <<nfile, norig, nret, nwrote, ncalls>>
vars == <<fvars, wvars, nvars>>

-----------------------------------------------------------------------------
(* Bounds of the model *)

MaxSegs == 5        \* a filter input is made of at most MaxSegs segments
MaxFiles == 2       \* a source tree holds at most MaxFiles files
MaxCalls == 3       \* process_note_file is called at most MaxCalls times

-----------------------------------------------------------------------------
(* Texts *)

\* the literal 'Excalidraw Data' of the pattern
LIT == <<"E","x","c","a","l","i","d","r","a","w"," ","D","a","t","a">>

\* the characters that Python's \s matches, among those the model uses
IsSpace(c) == c \in {" ", "\n", "\t"}

\* building blocks of the texts the model feeds to the filter
Segs == {<<"#">>, <<" ">>, <<"\n">>, <<"a">>, LIT}

RECURSIVE TextsUpTo(_)
TextsUpTo(n) ==
    IF n = 0 THEN {<<>>}
    ELSE LET P == TextsUpTo(n - 1) IN P \cup {t \o s : t \in P, s \in Segs}

Texts == TextsUpTo(MaxSegs)

\* s occurs in t starting at position i
StartsAt(t, i, s) ==
    /\ i >= 1
    /\ i + Len(s) - 1 <= Len(t)
    /\ SubSeq(t, i, i + Len(s) - 1) = s

-----------------------------------------------------------------------------
(* filter_excalidraw_data: re.sub(r'#\s*Excalidraw Data[\s\S]*$', '', text) *)
(* excaclean.py and notes_processor.py each carry a copy, with one pattern.  *)

\* (mutant of SkipSpace: the pattern without its \s*)
SkipSpaceNone(t, i) == i

\* \s* : the first position at or after i that holds no whitespace
RECURSIVE SkipSpace(_, _)
SkipSpace(t, i) ==
    IF i <= Len(t) /\ IsSpace(t[i]) THEN SkipSpace(t, i + 1) ELSE i

\* (mutant of MatchAt: the pattern anchored with ^ under re.MULTILINE)
MatchAtLineStart(t, i) ==
    /\ i <= Len(t)
    /\ t[i] = "#"
    /\ i = 1 \/ t[i - 1] = "\n"
    /\ StartsAt(t, SkipSpace(t, i + 1), LIT)

\* the pattern matches at position i: '#', whitespace, the literal.  The
\* literal starts with a non-blank, so giving back whitespace never helps.
MatchAt(t, i) ==
    /\ i <= Len(t)
    /\ t[i] = "#"
    /\ StartsAt(t, SkipSpace(t, i + 1), LIT)

\* (mutant of MatchEnd: the pattern without its [\s\S]*$)
MatchEndLiteral(t, i) == SkipSpace(t, i + 1) + Len(LIT) - 1

\* [\s\S]*$ : the last position of the match that starts at i
MatchEnd(t, i) == Len(t)

\* the regex search: the leftmost position >= pos where the pattern
\* matches, 0 when there is none
RECURSIVE Search(_, _)
Search(t, pos) ==
    IF pos > Len(t) THEN 0
    ELSE IF MatchAt(t, pos) THEN pos
    ELSE Search(t, pos + 1)

\* re.sub with the empty replacement: every non-overlapping match, from
\* the left, is dropped
RECURSIVE Sub(_, _)
Sub(t, pos) ==
    LET i == Search(t, pos) IN
    IF i = 0 THEN SubSeq(t, pos, Len(t))
    ELSE SubSeq(t, pos, i - 1) \o Sub(t, MatchEnd(t, i) + 1)

filter_excalidraw_data(text) == Sub(text, 1)

-----------------------------------------------------------------------------
(* Values the variables of the other components keep while one runs *)

Absent == <<"<absent>">>          \* no file at a destination path
Unreadable == <<"<unreadable>">>  \* open()/read() of the file raises
Missing == <<"<missing>">>        \* file_path.exists() is false
None == <<"<None>">>              \* Python's None
NoStep == [path |-> <<>>, kind |-> "none"]

FilterIdle ==
    /\ fx = <<>>
    /\ fy = <<>>
    /\ fchanged = FALSE
    /\ fpass = 0

WalkIdle ==
    /\ tree = <<>>
    /\ mode = "none"
    /\ pc = "idle"
    /\ di = 0
    /\ fi = 0
    /\ dest = <<>>
    /\ dest0 = <<>>
    /\ destDirs = {}
    /\ processed_files = 0
    /\ excalidraw_found = 0
    /\ result = <<>>
    /\ output = <<>>
    /\ total_files = 0
    /\ ticks = 0
    /\ last = NoStep

NoteIdle ==
    /\ nfile = Missing
    /\ norig = Missing
    /\ nret = "none"
    /\ nwrote = FALSE
    /\ ncalls = 0

-----------------------------------------------------------------------------
(* SpecFilter: filter_excalidraw_data called on a text, then on its result *)

MaxPasses == 2

InitFilter ==
    /\ fx \in Texts
    /\ fy = fx
    /\ fchanged = FALSE
    /\ fpass = 0
    /\ WalkIdle
    /\ NoteIdle

\* one call of filter_excalidraw_data, on the text the previous call
\* returned; fchanged is process_file's has_excalidraw (and the test
\* process_note_file makes): filtered_content != content
FilterCall ==
    /\ fpass < MaxPasses
    /\ fy' = filter_excalidraw_data(fy)
    /\ fchanged' = (fy' # fy)
    /\ fpass' = fpass + 1
    /\ UNCHANGED <<fx, wvars, nvars>>

NextFilter == FilterCall

SpecFilter == InitFilter /\ [][NextFilter]_vars

-----------------------------------------------------------------------------
(* Claims about the filter *)

\* '#', any run of whitespace, then the literal, starting at position i of t
OccursAt(t, i) ==
    /\ i \in 1..Len(t)
    /\ t[i] = "#"
    /\ \E k \in 0..Len(t) :
        /\ \A j \in 1..k : i + j <= Len(t) /\ IsSpace(t[i + j])
        /\ StartsAt(t, i + k + 1, LIT)

HasOccurrence(t) == \E i \in 1..Len(t) : OccursAt(t, i)

Leftmost(t) ==
    CHOOSE i \in 1..Len(t) : OccursAt(t, i) /\ \A j \in 1..(i - 1) : ~OccursAt(t, j)

\* only whitespace lies between the start of its line and position i
AtLineStart(t, i) ==
    \E s \in 1..i :
        /\ s = 1 \/ t[s - 1] = "\n"
        /\ \A j \in s..(i - 1) : IsSpace(t[j])

HeadingLineAt(t, i) == OccursAt(t, i) /\ AtLineStart(t, i)

HasHeadingLine(t) == \E i \in 1..Len(t) : HeadingLineAt(t, i)

LeftmostHeadingLine(t) ==
    CHOOSE i \in 1..Len(t) :
        HeadingLineAt(t, i) /\ \A j \in 1..(i - 1) : ~HeadingLineAt(t, j)

\* the heading '# Excalidraw Data'
Heading == <<"#", " ">> \o LIT

\* C1 as stated: the filter cuts at the leftmost line that, after its
\* leading whitespace, begins with '#', optional whitespace and the literal;
\* with no such line the text is returned unchanged and changed is false.
C1_Original ==
    fpass = 1 =>
        IF HasHeadingLine(fx)
        THEN fy = SubSeq(fx, 1, LeftmostHeadingLine(fx) - 1) /\ fchanged
        ELSE fy = fx /\ ~fchanged

\* C1 amended: the filter cuts at the leftmost occurrence, anywhere in the
\* text, of '#', optional whitespace and the literal 'Excalidraw Data',
\* removing it and everything after it; with no such occurrence the text is
\* returned unchanged and changed is false.
C1_CutsAtLeftmostOccurrence ==
    fpass = 1 =>
        IF HasOccurrence(fx)
        THEN fy = SubSeq(fx, 1, Leftmost(fx) - 1) /\ fchanged
        ELSE fy = fx /\ ~fchanged

\* a text was cut at an occurrence that stands mid-line, after other text
C1_Witness ==
    /\ fpass = 1
    /\ fchanged
    /\ HasOccurrence(fx)
    /\ ~AtLineStart(fx, Leftmost(fx))
    /\ fy = SubSeq(fx, 1, Leftmost(fx) - 1)

\* C2 as stated: for any T and X, filtering T + '# Excalidraw Data' + X
\* returns exactly T and reports changed.
C2_Original ==
    fpass = 1 =>
        \A k \in 1..Len(fx) :
            StartsAt(fx, k, Heading) => fy = SubSeq(fx, 1, k - 1) /\ fchanged

\* C2 amended: for any T that itself holds no occurrence of '#', optional
\* whitespace and 'Excalidraw Data', and any X, filtering
\* T + '# Excalidraw Data' + X returns exactly T and reports changed.
C2_HeadingSuffixCut ==
    fpass = 1 =>
        \A k \in 1..Len(fx) :
            (StartsAt(fx, k, Heading) /\ ~HasOccurrence(SubSeq(fx, 1, k - 1)))
                => fy = SubSeq(fx, 1, k - 1) /\ fchanged

\* a text T + heading + X with T and X not empty was filtered to T
C2_Witness ==
    /\ fpass = 1
    /\ \E k \in 2..Len(fx) :
        /\ StartsAt(fx, k, Heading)
        /\ ~HasOccurrence(SubSeq(fx, 1, k - 1))
        /\ k + Len(Heading) <= Len(fx)
        /\ fy = SubSeq(fx, 1, k - 1)

\* C3: the filter is idempotent: the second call, made on the text the
\* first call returned, returns it unchanged and reports no change.
C3_Idempotent ==
    [][fpass = 1 => (fy' = fy /\ ~fchanged')]_vars

\* the second call was made on a text the first call had cut
C3_Witness ==
    /\ fpass = 2
    /\ fy # fx
    /\ fy # <<>>

-----------------------------------------------------------------------------
(* excaclean.py: the source tree and the files of a run *)

NameA == <<"a", ".", "m", "d">>
NameB == <<"b", ".", "t", "x", "t">>
NameC == <<"c", ".", "m", "d">>
Names == {NameA, NameB, NameC}

RootDir == <<>>             \* Path(dirpath).relative_to(src_path) == Path('.')
SubDir == <<"s">>
Dirs == {RootDir, SubDir}

Plain == <<"H", "i">>
WithData == <<"H", "i", "\n">> \o Heading \o <<"\n", "{", "}">>
MidLine == <<"s", "e", "e", " ">> \o Heading
WithMarker == <<"#", " ", "F", "i", "l", "e", ":", " ", "q">>
Stale == <<"o", "l", "d">>
Contents == {Plain, WithData, MidLine, WithMarker, Unreadable}

FileRecs == [name : Names, content : Contents]

\* the files os.walk lists for one directory: distinct names, any order
FileSeqs(n) ==
    {f \in [1..n -> FileRecs] :
        \A i, j \in 1..n : i # j => f[i].name # f[j].name}

\* os.walk is top-down: the root first, then its sub-directory
Trees ==
    UNION {
        {<<[rel |-> RootDir, files |-> r]>> : r \in FileSeqs(k)}
        \cup
        UNION {{<<[rel |-> RootDir, files |-> r], [rel |-> SubDir, files |-> q]>> :
                    r \in FileSeqs(k), q \in FileSeqs(m)} : m \in 0..(MaxFiles - k)}
        : k \in 0..MaxFiles}

\* rel_path / filename
RelPath(dir, name) == IF dir = RootDir THEN name ELSE dir \o <<"/">> \o name

Paths == {RelPath(d, n) : d \in Dirs, n \in Names}

\* the files of a tree, in traversal order, with their relative paths
RECURSIVE Flat(_)
Flat(tr) ==
    IF tr = <<>> THEN <<>>
    ELSE [i \in 1..Len(tr[1].files) |->
             [path |-> RelPath(tr[1].rel, tr[1].files[i].name),
              name |-> tr[1].files[i].name,
              content |-> tr[1].files[i].content]]
         \o Flat(Tail(tr))

\* sum(1 for _ in source_dir.rglob('*') if _.is_file())
FileCount(tr) == Len(Flat(tr))

\* file_path.name.endswith('.md')
EndsWithMd(name) ==
    /\ Len(name) >= 3
    /\ SubSeq(name, Len(name) - 2, Len(name)) = <<".", "m", "d">>

-----------------------------------------------------------------------------
(* process_file *)

\* (mutant of process_file: the '.md' test is missing)
process_file_NoMdTest(name, content) ==
    IF content = Unreadable THEN [content |-> None, has |-> FALSE]
    ELSE LET filtered_content == filter_excalidraw_data(content) IN
         [content |-> filtered_content, has |-> filtered_content # content]

\* (mutant of process_file: the flag is computed before the '.md' test)
process_file_FlagFirst(name, content) ==
    IF content = Unreadable THEN [content |-> None, has |-> FALSE]
    ELSE LET filtered_content == filter_excalidraw_data(content) IN
         IF ~EndsWithMd(name)
         THEN [content |-> content, has |-> filtered_content # content]
         ELSE [content |-> filtered_content, has |-> filtered_content # content]

\* (mutant of process_file: the except branch returns '' instead of None)
process_file_EmptyOnError(name, content) ==
    IF content = Unreadable THEN [content |-> <<>>, has |-> FALSE]
    ELSE IF ~EndsWithMd(name) THEN [content |-> content, has |-> FALSE]
    ELSE LET filtered_content == filter_excalidraw_data(content) IN
         [content |-> filtered_content, has |-> filtered_content # content]

\* the pair process_file returns for a file of this name and content
process_file(name, content) ==
    IF content = Unreadable THEN [content |-> None, has |-> FALSE]
    ELSE IF ~EndsWithMd(name) THEN [content |-> content, has |-> FALSE]
    ELSE LET filtered_content == filter_excalidraw_data(content) IN
         [content |-> filtered_content, has |-> filtered_content # content]

-----------------------------------------------------------------------------
(* concatenate_files: the text it builds *)

FileMarker == <<"#", " ", "F", "i", "l", "e", ":">>

\* f"\n\n# File: {file_rel_path}\n\n{filtered_content}"
Block(path, content) ==
    <<"\n", "\n">> \o FileMarker \o <<" ">> \o path \o <<"\n", "\n">> \o content

\* (mutant of Join: ''.join(result))
RECURSIVE JoinNoSeparator(_)
JoinNoSeparator(entries) ==
    IF entries = <<>> THEN <<>>
    ELSE entries[1] \o JoinNoSeparator(Tail(entries))

\* "\n".join(result)
RECURSIVE Join(_)
Join(entries) ==
    IF entries = <<>> THEN <<>>
    ELSE IF Len(entries) = 1 THEN entries[1]
    ELSE entries[1] \o <<"\n">> \o Join(Tail(entries))

-----------------------------------------------------------------------------
(* SpecWalk: one run of main, in a mirror mode or in concat mode *)

\* the destination tree before the run holds at most one file
DestTrees ==
    {[p \in Paths |-> Absent]}
    \cup {[p \in Paths |-> IF p = q THEN Stale ELSE Absent] : q \in Paths}

InitWalk ==
    /\ tree \in Trees
    /\ mode \in {"mirror", "concat"}
    /\ pc = "main"
    /\ di = 0
    /\ fi = 0
    /\ dest0 \in (IF mode = "mirror" THEN DestTrees ELSE {[p \in Paths |-> Absent]})
    /\ dest = dest0
    /\ destDirs = {}
    /\ processed_files = 0
    /\ excalidraw_found = 0
    /\ result = <<>>
    /\ output = None
    /\ total_files = 0
    /\ ticks = 0
    /\ last = NoStep
    /\ FilterIdle
    /\ NoteIdle

\* the loop over filenames stands at a file of the directory being walked
AtFile == pc = "walking" /\ di >= 1 /\ fi <= Len(tree[di].files)
\* the loop over filenames of the directory being walked is over
DirDone == pc = "walking" /\ (IF di = 0 THEN TRUE ELSE fi > Len(tree[di].files))
CurFile == tree[di].files[fi]
CurPath == RelPath(tree[di].rel, CurFile.name)

\* main: counts the files, adds the progress task and calls the traversal
Main ==
    /\ pc = "main"
    /\ total_files' = FileCount(tree)
    /\ ticks' = 0
    /\ pc' = "called"
    /\ UNCHANGED <<tree, mode, di, fi, dest, dest0, destDirs, processed_files,
                   excalidraw_found, result, output, last, fvars, nvars>>

\* process_directory, up to its loop: counters and the destination root
PD_Enter ==
    /\ pc = "called"
    /\ mode = "mirror"
    /\ processed_files' = 0
    /\ excalidraw_found' = 0
    /\ destDirs' = destDirs \cup {RootDir}
    /\ di' = 0
    /\ fi' = 0
    /\ pc' = "walking"
    /\ UNCHANGED <<tree, mode, dest, dest0, result, output, total_files, ticks,
                   last, fvars, nvars>>

\* process_directory: os.walk yields the next directory; its mirror is made
PD_Dir ==
    /\ mode = "mirror"
    /\ DirDone
    /\ di < Len(tree)
    /\ di' = di + 1
    /\ fi' = 1
    /\ destDirs' = destDirs \cup {tree[di + 1].rel}
    /\ UNCHANGED <<tree, mode, pc, dest, dest0, processed_files, excalidraw_found,
                   result, output, total_files, ticks, last, fvars, nvars>>

\* process_directory: the body of the loop over filenames, for one file.
\* open(dest_file, 'w') may raise; nothing catches it.
PD_File ==
    /\ mode = "mirror"
    /\ AtFile
    /\ LET r == process_file(CurFile.name, CurFile.content) IN
       IF r.content # None
       THEN \E writable \in BOOLEAN :
              IF writable
              THEN /\ dest' = [dest EXCEPT ![CurPath] = r.content]
                   /\ processed_files' = processed_files + 1
                   /\ excalidraw_found' =
                        IF r.has THEN excalidraw_found + 1 ELSE excalidraw_found
                   /\ ticks' = ticks + 1
                   /\ fi' = fi + 1
                   /\ pc' = pc
                   /\ last' = [path |-> CurPath, kind |-> "written"]
              ELSE /\ pc' = "aborted"
                   /\ last' = [path |-> CurPath, kind |-> "write_failed"]
                   /\ UNCHANGED <<dest, processed_files, excalidraw_found,
                                  ticks, fi>>
       ELSE /\ fi' = fi + 1
            /\ last' = [path |-> CurPath, kind |-> "skipped"]
            /\ UNCHANGED <<dest, processed_files, excalidraw_found, ticks, pc>>
    /\ UNCHANGED <<tree, mode, di, dest0, destDirs, result, output, total_files,
                   fvars, nvars>>

\* process_directory returns its counts and main prints them
PD_Return ==
    /\ mode = "mirror"
    /\ DirDone
    /\ di = Len(tree)
    /\ pc' = "returned"
    /\ UNCHANGED <<tree, mode, di, fi, dest, dest0, destDirs, processed_files,
                   excalidraw_found, result, output, total_files, ticks, last,
                   fvars, nvars>>

\* concatenate_files, up to its loop
CF_Enter ==
    /\ pc = "called"
    /\ mode = "concat"
    /\ result' = <<>>
    /\ processed_files' = 0
    /\ excalidraw_found' = 0
    /\ di' = 0
    /\ fi' = 0
    /\ pc' = "walking"
    /\ UNCHANGED <<tree, mode, dest, dest0, destDirs, output, total_files, ticks,
                   last, fvars, nvars>>

\* concatenate_files: os.walk yields the next directory
CF_Dir ==
    /\ mode = "concat"
    /\ DirDone
    /\ di < Len(tree)
    /\ di' = di + 1
    /\ fi' = 1
    /\ UNCHANGED <<tree, mode, pc, dest, dest0, destDirs, processed_files,
                   excalidraw_found, result, output, total_files, ticks, last,
                   fvars, nvars>>

\* concatenate_files: the body of the loop over filenames, for one file
CF_File ==
    /\ mode = "concat"
    /\ AtFile
    /\ LET r == process_file(CurFile.name, CurFile.content) IN
       IF r.content # None
       THEN /\ result' = Append(result, Block(CurPath, r.content))
            /\ processed_files' = processed_files + 1
            /\ excalidraw_found' =
                 IF r.has THEN excalidraw_found + 1 ELSE excalidraw_found
            /\ ticks' = ticks + 1
            /\ last' = [path |-> CurPath, kind |-> "appended"]
       ELSE /\ last' = [path |-> CurPath, kind |-> "skipped"]
            /\ UNCHANGED <<result, processed_files, excalidraw_found, ticks>>
    /\ fi' = fi + 1
    /\ UNCHANGED <<tree, mode, pc, di, dest, dest0, destDirs, output,
                   total_files, fvars, nvars>>

\* concatenate_files returns the joined text and its counts
CF_Return ==
    /\ mode = "concat"
    /\ DirDone
    /\ di = Len(tree)
    /\ output' = Join(result)
    /\ pc' = "returned"
    /\ UNCHANGED <<tree, mode, di, fi, dest, dest0, destDirs, processed_files,
                   excalidraw_found, result, total_files, ticks, last,
                   fvars, nvars>>

NextWalk ==
    \/ Main
    \/ PD_Enter
    \/ PD_Dir
    \/ PD_File
    \/ PD_Return
    \/ CF_Enter
    \/ CF_Dir
    \/ CF_File
    \/ CF_Return

SpecWalk == InitWalk /\ [][NextWalk]_vars

-----------------------------------------------------------------------------
(* Claims about the traversals *)

\* what the filter is to return, stated without the regular expression
Filtered(t) == IF HasOccurrence(t) THEN SubSeq(t, 1, Leftmost(t) - 1) ELSE t

Readable(f) == f.content # Unreadable

\* the content a successfully processed file is to come out with
ExpectedContent(f) == IF EndsWithMd(f.name) THEN Filtered(f.content) ELSE f.content

AllFiles == Flat(tree)

RECURSIVE FilesBefore(_)
FilesBefore(d) == IF d <= 1 THEN 0 ELSE Len(tree[d - 1].files) + FilesBefore(d - 1)

\* the number of files the loop has gone past
VisitedCount == IF di = 0 THEN 0 ELSE FilesBefore(di) + (fi - 1)

ReadableCount(n) == Cardinality({i \in 1..n : Readable(AllFiles[i])})

InRun == pc \in {"walking", "returned", "aborted"}

\* C4 as stated: after a completed mirror run every source file either has
\* its (filtered, for .md) content at the same path of the destination, or
\* was skipped for a read error and no file is at that destination path.
C4_Original ==
    (pc = "returned" /\ mode = "mirror") =>
        \A i \in 1..Len(AllFiles) :
            LET f == AllFiles[i] IN
            \/ Readable(f) /\ dest[f.path] = ExpectedContent(f)
            \/ ~Readable(f) /\ dest[f.path] = Absent

\* C4 amended: ... or was skipped for a read error and the destination
\* path is as it was before the run: no file when none was there, the old
\* file when the destination tree already held one.
C4_MirrorResult ==
    (pc = "returned" /\ mode = "mirror") =>
        \A i \in 1..Len(AllFiles) :
            LET f == AllFiles[i] IN
            \/ Readable(f) /\ dest[f.path] = ExpectedContent(f)
            \/ ~Readable(f) /\ dest[f.path] = dest0[f.path]

\* a completed mirror run that skipped an unreadable file whose destination
\* path held an old file, and wrote a filtered .md file
C4_Witness ==
    /\ pc = "returned"
    /\ mode = "mirror"
    /\ \E i, j \in 1..Len(AllFiles) :
        /\ ~Readable(AllFiles[i])
        /\ dest0[AllFiles[i].path] = Stale
        /\ dest[AllFiles[i].path] = Stale
        /\ EndsWithMd(AllFiles[j].name)
        /\ Readable(AllFiles[j])
        /\ HasOccurrence(AllFiles[j].content)
        /\ dest[AllFiles[j].path] = Filtered(AllFiles[j].content)

\* C5 as stated: a failed write of a destination file skips the file, leaves
\* the counts alone and lets process_directory go on to the next file.
C5_Original ==
    [][(mode = "mirror" /\ pc = "walking" /\ last'.kind = "write_failed")
          => /\ pc' = "walking"
             /\ fi' = fi + 1
             /\ processed_files' = processed_files
             /\ excalidraw_found' = excalidraw_found]_vars

\* C6 as stated: one progress update follows each file, processed or
\* skipped, so the ticks of a finished traversal equal the total counted
\* before it.
C6_Original ==
    /\ pc = "walking" => ticks = VisitedCount
    /\ pc = "returned" => ticks = total_files

\* C7: a file that cannot be read makes process_file return (None, False);
\* the traversal leaves the counts, the destination tree and the list of
\* entries as they are and moves on to the next file, and a traversal that
\* returns has processed every readable file.
C7_SkipOnReadError ==
    [][/\ (pc = "walking" /\ di >= 1 /\ fi <= Len(tree[di].files)
              /\ tree[di].files[fi].content = Unreadable)
          => /\ process_file(tree[di].files[fi].name, Unreadable)
                    = [content |-> None, has |-> FALSE]
             /\ processed_files' = processed_files
             /\ excalidraw_found' = excalidraw_found
             /\ dest' = dest
             /\ result' = result
             /\ pc' = "walking"
             /\ di' = di
             /\ fi' = fi + 1
       /\ pc' = "returned" =>
             processed_files' = ReadableCount(Len(AllFiles))]_vars

\* a traversal returned after it skipped its first file and processed its
\* second
C7_Witness ==
    /\ pc = "returned"
    /\ Len(AllFiles) >= 2
    /\ ~Readable(AllFiles[1])
    /\ Readable(AllFiles[2])
    /\ processed_files >= 1

\* no .md file of the tree holds the pattern
NoMdWithPattern ==
    \A i \in 1..Len(AllFiles) :
        (EndsWithMd(AllFiles[i].name) /\ Readable(AllFiles[i]))
            => ~HasOccurrence(AllFiles[i].content)

RECURSIVE ExpectedText(_, _)
ExpectedText(i, first) ==
    IF i > Len(AllFiles) THEN <<>>
    ELSE IF ~Readable(AllFiles[i]) THEN ExpectedText(i + 1, first)
    ELSE (IF first THEN <<>> ELSE <<"\n">>)
         \o <<"\n", "\n", "#", " ", "F", "i", "l", "e", ":", " ">>
         \o AllFiles[i].path
         \o <<"\n", "\n">>
         \o ExpectedContent(AllFiles[i])
         \o ExpectedText(i + 1, FALSE)

MarkerPositions(t) == {i \in 1..Len(t) : StartsAt(t, i, FileMarker)}

\* the text between the '# File: ' that starts at i and the end of its line
RECURSIVE LineEnd(_, _)
LineEnd(t, j) == IF j > Len(t) \/ t[j] = "\n" THEN j - 1 ELSE LineEnd(t, j + 1)
MarkerPath(t, i) == SubSeq(t, i + Len(FileMarker) + 1, LineEnd(t, i))

Contains(t, s) == \E i \in 1..Len(t) : StartsAt(t, i, s)

\* the markers of the output are as many as the processed files and each
\* names exactly one file of the tree
MarkersMatchFiles ==
    /\ Cardinality(MarkerPositions(output)) = processed_files
    /\ \A i \in MarkerPositions(output) :
        Cardinality({k \in 1..Len(AllFiles) :
                        AllFiles[k].path = MarkerPath(output, i)}) = 1

\* C9 as stated: the output is one block per processed file, in traversal
\* order, joined by single newlines; its '# File:' markers are as many as
\* the processed files and each names exactly one file of the tree.
C9_Original ==
    (pc = "returned" /\ mode = "concat") =>
        /\ output = ExpectedText(1, TRUE)
        /\ Len(result) = processed_files
        /\ MarkersMatchFiles

\* no path and no content put out holds the text '# File:'
NoMarkerInFiles ==
    \A i \in 1..Len(AllFiles) :
        /\ ~Contains(AllFiles[i].path, FileMarker)
        /\ Readable(AllFiles[i]) => ~Contains(ExpectedContent(AllFiles[i]), FileMarker)

\* C9 amended: the output is one block per processed file, in traversal
\* order, joined by single newlines, and the blocks are as many as the
\* processed files; when no path and no content put out holds the text
\* '# File:', the markers of the output are as many as the processed files
\* and each names exactly one file of the tree.
C9_ConcatOutput ==
    (pc = "returned" /\ mode = "concat") =>
        /\ output = ExpectedText(1, TRUE)
        /\ Len(result) = processed_files
        /\ NoMarkerInFiles => MarkersMatchFiles

\* concat mode returned the blocks of two files, one of them a filtered .md
C9_Witness ==
    /\ pc = "returned"
    /\ mode = "concat"
    /\ processed_files = 2
    /\ excalidraw_found = 1
    /\ NoMarkerInFiles
    /\ Cardinality(MarkerPositions(output)) = 2

-----------------------------------------------------------------------------
(* SpecNote: notes_processor.process_note_file called again and again on
   one path that nothing else writes *)

InitNote ==
    /\ nfile \in Texts \cup {Missing}
    /\ norig = nfile
    /\ nret = "none"
    /\ nwrote = FALSE
    /\ ncalls = 0
    /\ FilterIdle
    /\ WalkIdle

\* (mutant of content_changed: the test is missing, every call saves)
content_changed_Always(filtered_content, original_content) == TRUE

\* if filtered_content != original_content
content_changed(filtered_content, original_content) ==
    filtered_content # original_content

\* one call of process_note_file
ProcessNoteFile ==
    /\ ncalls < MaxCalls
    /\ ncalls' = ncalls + 1
    /\ IF nfile = Missing
       THEN /\ nret' = "False"
            /\ nwrote' = FALSE
            /\ nfile' = nfile
       ELSE LET original_content == nfile
                filtered_content == filter_excalidraw_data(original_content)
            IN IF content_changed(filtered_content, original_content)
               THEN /\ nfile' = filtered_content
                    /\ nwrote' = TRUE
                    /\ nret' = "True"
               ELSE /\ nfile' = nfile
                    /\ nwrote' = FALSE
                    /\ nret' = "False"
    /\ UNCHANGED <<norig, fvars, wvars>>

NextNote == ProcessNoteFile

SpecNote == InitNote /\ [][NextNote]_vars

\* C10: a call returns True exactly when it rewrote the file, and then with
\* the filtered content; a call that returns False leaves the path as it
\* was (a missing path stays missing); once a call has been made on an
\* existing file, the file holds the filter of the original content and
\* every later call returns False.
C10_NoteCalls ==
    [][ncalls' = ncalls + 1 =>
          /\ nret' \in {"True", "False"}
          /\ nret' = "True" <=> nwrote'
          /\ nwrote' => (nfile # Missing /\ nfile' = Filtered(nfile))
          /\ nret' = "False" => nfile' = nfile
          /\ norig # Missing => nfile' = Filtered(norig)
          /\ (norig # Missing /\ ncalls >= 1) => nret' = "False"]_vars

\* the first call rewrote the file and the second call returned False
C10_Witness ==
    /\ ncalls = 2
    /\ norig # Missing
    /\ nfile # norig
    /\ nfile # <<>>
    /\ nret = "False"

====
